---- MODULE Spec2Model ----
(***************************************************************************)
(* Xpress-Huffman compressor (ms-compress, C port): the chunk pipeline of  *)
(* xpress_huff_compress, the hash-chain dictionary, the two Huffman code   *)
(* builders and the 16-bit bitstream writer, as state machines.            *)
(***************************************************************************)
EXTENDS Integers, Sequences, FiniteSets, TLC

(* ------------------------------------------------------------------ *)
(* Program constants                                                    *)
(* ------------------------------------------------------------------ *)
SYMBOLS == 512
HALF_SYMBOLS == 256
STREAM_END == 256
STREAM_END_LEN_1 == 1
HUFF_BITS_MAX == 15
HASH_BITS == 15
MAX_CHAIN == 11
NICE_LENGTH == 48

\* The chunk is 2^16 bytes in the source (CHUNK_SIZE 0x10000, MAX_OFFSET
\* 0xFFFF = CHUNK_SIZE - 1, window of CHUNK_SIZE << 1 slots, scratch buffer of
\* 0x1200C = CHUNK_SIZE / 32 * 36 + 12 bytes).  The model keeps every one of
\* these relations and scales the exponent, so that inputs of a few chunks
\* stay small.
ChunkBits == 5
CHUNK_SIZE == 2 ^ ChunkBits
MAX_OFFSET == CHUNK_SIZE - 1
NULL == 0

(* ------------------------------------------------------------------ *)
(* Fixed-width integer helpers                                          *)
(* ------------------------------------------------------------------ *)
MAX(a, b) == IF a > b THEN a ELSE b
MIN(a, b) == IF a < b THEN a ELSE b

\* x << k and x >> k on naturals; U16/U8 cut to the C width.  The 32-bit values
\* of the builders (weights, counts) stay far below 2^31 for the counts of one
\* chunk, so they are plain integers here (TLC stops on an overflow of its own
\* 32-bit integers instead of wrapping).
Shl(x, k) == x * (2 ^ k)
Shr(x, k) == x \div (2 ^ k)
U16(x) == x % 65536
U8(x) == x % 256

\* An array as TLC keeps it once written: the function with its values stored.
Array(f) == IF f = <<>> THEN <<>> ELSE f

RECURSIVE BitXor(_, _)
BitXor(a, b) ==
  IF a = 0 THEN b
  ELSE IF b = 0 THEN a
  ELSE (((a % 2) + (b % 2)) % 2) + 2 * BitXor(a \div 2, b \div 2)

RECURSIVE BitOr(_, _)
BitOr(a, b) ==
  IF a = 0 THEN b
  ELSE IF b = 0 THEN a
  ELSE (IF (a % 2) = 1 \/ (b % 2) = 1 THEN 1 ELSE 0) + 2 * BitOr(a \div 2, b \div 2)

(* ------------------------------------------------------------------ *)
(* HuffmanEncoder: CreateCodes (heap-built, rescaled until <= 15 bits)  *)
(* ------------------------------------------------------------------ *)

\* HEAP_PUSH's loop: heap[j] already holds x at j = heap_len (after ++).
\* heap[0] = 0 and weights[0] = 0 are the sentinel that stops it at the root.
RECURSIVE HeapSiftUp(_, _, _, _)
HeapSiftUp(heap, weights, x, j) ==
  IF weights[x] < weights[heap[j \div 2]]
  THEN HeapSiftUp([heap EXCEPT ![j] = heap[j \div 2]], weights, x, j \div 2)
  ELSE [heap EXCEPT ![j] = x]

\* HEAP_PUSH(x) with heap_len the length before the push.
HEAP_PUSH(heap, heap_len, weights, x) ==
  HeapSiftUp([heap EXCEPT ![heap_len + 1] = x], weights, x, heap_len + 1)

\* HEAP_POP's loop; heap_len is the length after the decrement.
RECURSIVE HeapSiftDown(_, _, _, _, _)
HeapSiftDown(heap, heap_len, weights, t, i) ==
  LET j0 == 2 * i IN
  IF j0 > heap_len THEN [heap EXCEPT ![i] = t]
  ELSE LET j == IF j0 < heap_len /\ weights[heap[j0 + 1]] < weights[heap[j0]]
                THEN j0 + 1 ELSE j0
       IN IF weights[t] < weights[heap[j]]
          THEN [heap EXCEPT ![i] = t]
          ELSE HeapSiftDown([heap EXCEPT ![i] = heap[j]], heap_len, weights, t, j)

\* HEAP_POP() with heap_len the length before the pop.
HEAP_POP(heap, heap_len, weights) ==
  HeapSiftDown([heap EXCEPT ![1] = heap[heap_len]], heap_len - 1, weights,
               heap[heap_len], 1)

\* The initial heap: for (i = 1; i <= SYMBOLS; ++i) HEAP_PUSH(i), the pushes
\* lo..hi in order (the heap holds lo - 1 entries before lo is pushed).
RECURSIVE HeapBuild(_, _, _, _)
HeapBuild(heap, weights, lo, hi) ==
  IF lo = hi THEN HEAP_PUSH(heap, lo - 1, weights, lo)
  ELSE LET mid == (lo + hi) \div 2
           left == HeapBuild(heap, weights, lo, mid)
       IN IF left[0] = 0 THEN HeapBuild(left, weights, mid + 1, hi) ELSE left

\* One round of "while (heap_len > 1)": pop the two lightest nodes, give them
\* a new parent whose weight is the sum of the two counts (upper 24 bits) and
\* whose low byte is 1 + the larger depth, push the parent.
TreeMerge(t) ==
  LET n1 == t.heap[1]
      h1 == HEAP_POP(t.heap, t.heap_len, t.weights)
      n2 == h1[1]
      h2 == HEAP_POP(h1, t.heap_len - 1, t.weights)
      nn == t.n_nodes + 1
      w1 == t.weights[n1]
      w2 == t.weights[n2]
      w  == BitOr((w1 - (w1 % 256)) + (w2 - (w2 % 256)),
                  1 + MAX(w1 % 256, w2 % 256))
      ws == [t.weights EXCEPT ![nn] = w]
      h3 == HEAP_PUSH(h2, t.heap_len - 2, ws, nn)
  IN IF h1[0] = 0 /\ h2[0] = 0 /\ ws[0] = 0 /\ h3[0] = 0
     THEN [heap     |-> h3,
           heap_len |-> t.heap_len - 1,
           weights  |-> ws,
           parents  |-> [t.parents EXCEPT ![n1] = nn, ![n2] = nn],
           n_nodes  |-> nn]
     ELSE t

\* n rounds of the merge loop (n = heap_len - 1 empties the heap to its root).
RECURSIVE TreeBuild(_, _)
TreeBuild(t, n) ==
  IF n = 0 THEN t
  ELSE IF n = 1 THEN TreeMerge(t)
  ELSE LET half == TreeBuild(t, n \div 2)
       IN IF half.heap_len >= 1 THEN TreeBuild(half, n - (n \div 2)) ELSE half

\* while (parents[k] > 0) { k = parents[k]; ++j; }
RECURSIVE TreeDepth(_, _)
TreeDepth(parents, k) ==
  IF parents[k] > 0 THEN 1 + TreeDepth(parents, parents[k]) ELSE 0

\* The lengths one build of the tree gives for the weights (uint8_t j).
TreeLens(weights) ==
  LET heap0 == Array([i \in 0..(SYMBOLS + 1) |-> 0])
      heap1 == HeapBuild(heap0, weights, 1, SYMBOLS)
      t0 == [heap     |-> heap1,
             heap_len |-> SYMBOLS,
             weights  |-> weights,
             parents  |-> Array([i \in 0..(2 * SYMBOLS - 1) |-> 0]),
             n_nodes  |-> SYMBOLS]
      t == IF heap1[0] = 0 THEN TreeBuild(t0, SYMBOLS - 1) ELSE t0
      parents == t.parents
  IN IF parents[0] = 0
     THEN Array([i \in 0..(SYMBOLS - 1) |-> U8(TreeDepth(parents, i + 1))])
     ELSE <<>>

\* weights[i] = (1 + (weights[i] >> 9)) << 8 for the leaves 1..SYMBOLS.
RescaleWeights(weights) ==
  Array([i \in 0..(2 * SYMBOLS - 1) |->
     IF i >= 1 /\ i <= SYMBOLS THEN Shl(1 + Shr(weights[i], 9), 8) ELSE 0])

\* for (;;) { build; if (!too_long) break; rescale; }
\* The lengths of the first tree, with the rescaling loop left out.
LimitedLensNoRescale(weights) == TreeLens(weights)

RECURSIVE LimitedLens(_)
\* Lines 100-108: lens are kept unless one is too long.
LensOrRescale(weights, lens) ==
  IF \E i \in 0..(SYMBOLS - 1) : lens[i] > HUFF_BITS_MAX
  THEN LimitedLens(RescaleWeights(weights))
  ELSE lens
LimitedLens(weights) == LensOrRescale(weights, TreeLens(weights))

\* weights[i+1] = (symbol_counts[i] == 0 ? 1 : symbol_counts[i]) << 8
InitialWeights(symbol_counts) ==
  Array([i \in 0..(2 * SYMBOLS - 1) |->
     IF i >= 1 /\ i <= SYMBOLS
     THEN Shl(IF symbol_counts[i - 1] = 0 THEN 1 ELSE symbol_counts[i - 1], 8)
     ELSE 0])

\* The inner loop of the code assignment for one length: the symbols
\* syms[lo..hi] (those of that length, ascending) get code, code+1, ...
RECURSIVE AssignCodes(_, _, _, _, _)
AssignCodes(codes, syms, code, lo, hi) ==
  IF lo > hi THEN codes
  ELSE IF lo = hi THEN [codes EXCEPT ![syms[lo]] = U16(code + lo - 1)]
  ELSE LET mid == (lo + hi) \div 2
           left == AssignCodes(codes, syms, code, lo, mid)
       IN IF left[0] >= 0 THEN AssignCodes(left, syms, code, mid + 1, hi) ELSE left

SymbolIndices == Array([i \in 1..SYMBOLS |-> i - 1])

\* The code assignment with "code <<= 1" left out.
RECURSIVE CanonicalCodesNoShift(_, _, _, _, _)
CanonicalCodesNoShift(codes, lens, code, n, max) ==
  IF n > max THEN codes
  ELSE LET syms == SelectSeq(SymbolIndices, LAMBDA s : lens[s] = n)
           next == AssignCodes(codes, syms, code, 1, Len(syms))
       IN IF next[0] >= 0
          THEN CanonicalCodesNoShift(next, lens, U16(code + Len(syms)), n + 1, max)
          ELSE next

\* for (n = min; n <= max; ++n) { for (i ...) if (lens[i] == n) codes[i] = code++;
\*                                code <<= 1; }          (uint16_t code)
RECURSIVE CanonicalCodes(_, _, _, _, _)
CanonicalCodes(codes, lens, code, n, max) ==
  IF n > max THEN codes
  ELSE LET syms == SelectSeq(SymbolIndices, LAMBDA s : lens[s] = n)
           next == AssignCodes(codes, syms, code, 1, Len(syms))
       IN IF next[0] >= 0
          THEN CanonicalCodes(next, lens, U16(2 * U16(code + Len(syms))), n + 1, max)
          ELSE next

LensMin(lens) == CHOOSE m \in 0..255 :
  (\E i \in 0..(SYMBOLS - 1) : lens[i] = m) /\ (\A i \in 0..(SYMBOLS - 1) : lens[i] >= m)
LensMax(lens) == CHOOSE m \in 0..255 :
  (\E i \in 0..(SYMBOLS - 1) : lens[i] = m) /\ (\A i \in 0..(SYMBOLS - 1) : lens[i] <= m)

ZeroCodes == Array([i \in 0..(SYMBOLS - 1) |-> 0])

\* Lines 111-129: the codes for the lengths, and what the encoder holds then.
EncoderFor(lens) ==
  [lens  |-> lens,
   codes |-> CanonicalCodes(ZeroCodes, lens, 0, LensMin(lens), LensMax(lens))]
CreateCodes(symbol_counts) == EncoderFor(LimitedLens(InitialWeights(symbol_counts)))

(* ------------------------------------------------------------------ *)
(* sorting.h: stable sorts of symbol lists by an external key array     *)
(* ------------------------------------------------------------------ *)
SORT_SWITCH_TO_INSERT_LIMIT == 90

\* One pass of insertion_sort's outer loop for the 1-based index i: x = syms[i]
\* moves down past every neighbour whose key is greater; j is where the inner
\* while loop stops (the number of entries left below x).
InsertionStep(syms, conditions, i) ==
  LET x == syms[i]
      cond == conditions[x]
      stops == {j \in 0..(i - 1) : j = 0 \/ ~(conditions[syms[j]] > cond)}
      j == CHOOSE m \in stops : \A o \in stops : o <= m
  IN SubSeq(syms, 1, j) \o <<x>> \o SubSeq(syms, j + 1, i - 1)
       \o SubSeq(syms, i + 1, Len(syms))

\* insertion_sort: the passes lo..hi of the outer loop, in order.
RECURSIVE InsertionPasses(_, _, _, _)
InsertionPasses(syms, conditions, lo, hi) ==
  IF lo > hi THEN syms
  ELSE IF lo = hi THEN InsertionStep(syms, conditions, lo)
  ELSE LET mid == (lo + hi) \div 2
           left == InsertionPasses(syms, conditions, lo, mid)
       IN IF Len(left) >= 0 THEN InsertionPasses(left, conditions, mid + 1, hi) ELSE left

insertion_sort(syms, conditions) == InsertionPasses(syms, conditions, 2, Len(syms))

\* One step of merge_sort's merge of temp[0, m) and temp[m, len): the right
\* head is taken only when its key is strictly smaller (that keeps it stable);
\* when one side is exhausted the other is copied.
MergeStep(st, conditions) ==
  IF st.j <= Len(st.left)
     /\ (st.k > Len(st.right)
         \/ ~(conditions[st.right[st.k]] < conditions[st.left[st.j]]))
  THEN [st EXCEPT !.out = Append(st.out, st.left[st.j]), !.j = st.j + 1]
  ELSE [st EXCEPT !.out = Append(st.out, st.right[st.k]), !.k = st.k + 1]

RECURSIVE MergeSteps(_, _, _)
MergeSteps(st, conditions, n) ==
  IF n = 0 THEN st
  ELSE IF n = 1 THEN MergeStep(st, conditions)
  ELSE LET half == MergeSteps(st, conditions, n \div 2)
       IN IF half.j >= 0 THEN MergeSteps(half, conditions, n - (n \div 2)) ELSE half

RECURSIVE merge_sort(_, _)
merge_sort(syms, conditions) ==
  IF Len(syms) < SORT_SWITCH_TO_INSERT_LIMIT
  THEN insertion_sort(syms, conditions)
  ELSE LET m == Len(syms) \div 2
           l == merge_sort(SubSeq(syms, 1, m), conditions)
           r == merge_sort(SubSeq(syms, m + 1, Len(syms)), conditions)
       IN IF Len(l) + Len(r) >= 0
          THEN MergeSteps([left |-> l, right |-> r, j |-> 1, k |-> 1, out |-> <<>>],
                          conditions, Len(syms)).out
          ELSE syms

(* ------------------------------------------------------------------ *)
(* HuffmanEncoder: CreateCodesSlow (package-merge)                      *)
(* ------------------------------------------------------------------ *)
\* A collection holds, for every symbol, how many of its coins it packs, and
\* the sum of their counts.  Only the len symbols that occur can be non-zero,
\* so "symbols" is kept for those alone: entry p is symbol syms_by_count[p].

\* One trip of "for (i = 0; i < 2; ++i)": the cheaper of the next collection
\* and the next symbol goes into the package being built.
\* A choice that takes every symbol before any package.
TakesPackageLast(pm) == pm.pos >= Len(pm.syms_by_count)
\* Line 177: the next item is the package cols[cols_pos] when no symbol is
\* left or the package counts less than the next symbol.  "count" is a
\* uint_fast16_t: 64 bits wide with glibc on x86-64 and 32 on i386, where the
\* sums of one chunk's counts (below 15 * 65538) do not wrap; a plain integer
\* here.
TakesPackage(pm) ==
  pm.pos >= Len(pm.syms_by_count)
     \/ (pm.cols_pos < Len(pm.cols)
         /\ pm.cols[pm.cols_pos + 1].count
              < pm.symbol_counts[pm.syms_by_count[pm.pos + 1]])

PackageAdd(pm, pkg) ==
  LET len == Len(pm.syms_by_count) IN
  IF TakesPackage(pm)
  THEN LET c == pm.cols[pm.cols_pos + 1]
       IN [pm  |-> [pm EXCEPT !.cols_pos = pm.cols_pos + 1],
           pkg |-> [count   |-> pkg.count + c.count,
                    symbols |-> [p \in 1..len |-> U8(pkg.symbols[p] + c.symbols[p])]]]
  ELSE [pm  |-> [pm EXCEPT !.pos = pm.pos + 1],
        pkg |-> [count   |-> pkg.count + pm.symbol_counts[pm.syms_by_count[pm.pos + 1]],
                 symbols |-> [pkg.symbols EXCEPT ![pm.pos + 1] = U8(@ + 1)]]]

\* One round of "while ((cols_len-cols_pos + len-pos) > 1)".
PackageStep(pm) ==
  LET len == Len(pm.syms_by_count)
      empty == [count |-> 0, symbols |-> [p \in 1..len |-> 0]]
      a == PackageAdd(pm, empty)
      b == PackageAdd(a.pm, a.pkg)
  IN [b.pm EXCEPT !.next_cols = Append(pm.next_cols, b.pkg)]

RECURSIVE PackageSteps(_, _)
PackageSteps(pm, n) ==
  IF n = 0 THEN pm
  ELSE IF n = 1 THEN PackageStep(pm)
  ELSE LET half == PackageSteps(pm, n \div 2)
       IN IF half.pos >= 0 THEN PackageSteps(half, n - (n \div 2)) ELSE half

\* One round of "for (j = 0; j < HUFF_BITS_MAX; ++j)": package pairs, drop the
\* leftover (its symbols each lose one bit of length, uint8_t), swap the rows.
PackageLevel(pm) ==
  LET len == Len(pm.syms_by_count)
      start == [pm EXCEPT !.cols_pos = 0, !.pos = 0, !.next_cols = <<>>]
      q == PackageSteps(start, (Len(pm.cols) + len) \div 2)
      lens == IF q.cols_pos < Len(q.cols)
              THEN [p \in 1..len |-> U8(q.lens[p] - q.cols[q.cols_pos + 1].symbols[p])]
              ELSE IF q.pos < len
              THEN [q.lens EXCEPT ![q.pos + 1] = U8(@ - 1)]
              ELSE q.lens
  IN [q EXCEPT !.lens = lens, !.cols = q.next_cols, !.next_cols = <<>>]

RECURSIVE PackageLevels(_, _)
PackageNext(next, j) == IF next.pos >= 0 THEN PackageLevels(next, j - 1) ELSE next
PackageLevels(pm, j) == IF j = 0 THEN pm ELSE PackageNext(PackageLevel(pm), j)

\* codes[syms_by_len[i]] = (codes[syms_by_len[i-1]] + 1) << (length difference)
RECURSIVE SlowCodes(_, _, _, _, _)
SlowCodes(codes, lens, syms_by_len, lo, hi) ==
  IF lo > hi THEN codes
  ELSE IF lo = hi
  THEN [codes EXCEPT ![syms_by_len[lo]] =
          U16(Shl(codes[syms_by_len[lo - 1]] + 1,
                  lens[syms_by_len[lo]] - lens[syms_by_len[lo - 1]]))]
  ELSE LET mid == (lo + hi) \div 2
           left == SlowCodes(codes, lens, syms_by_len, lo, mid)
       IN IF left[0] >= 0 THEN SlowCodes(left, lens, syms_by_len, mid + 1, hi) ELSE left

\* ctx->lens after the package-merge rounds: pm.lens is indexed by the place
\* of a symbol in syms_by_count.
SlowLens(symbol_counts, syms_by_count, pm) ==
  LET len == Len(syms_by_count)
      place == [s \in {syms_by_count[p] : p \in 1..len} |->
                  CHOOSE p \in 1..len : syms_by_count[p] = s]
  IN Array([i \in 0..(SYMBOLS - 1) |->
              IF symbol_counts[i] # 0 THEN pm.lens[place[i]] ELSE 0])

\* Lines 220-225: the symbols sorted by length, and their codes.
SlowEncoderFor(present, lens) ==
  [lens  |-> lens,
   codes |-> SlowCodes(ZeroCodes, lens, merge_sort(present, lens), 2, Len(present))]

CreateCodesSlow(symbol_counts) ==
  LET present == SelectSeq(SymbolIndices, LAMBDA s : symbol_counts[s] # 0)
      len == Len(present)
      syms_by_count == merge_sort(present, symbol_counts)
  IN IF len = 1
     THEN [lens  |-> Array([i \in 0..(SYMBOLS - 1) |->
                              IF i = syms_by_count[1] THEN 1 ELSE 0]),
           codes |-> ZeroCodes]
     ELSE SlowEncoderFor(
            present,
            SlowLens(symbol_counts, syms_by_count,
                     PackageLevels([symbol_counts |-> symbol_counts,
                                    syms_by_count |-> syms_by_count,
                                    cols |-> <<>>, next_cols |-> <<>>,
                                    cols_pos |-> 0, pos |-> 0,
                                    lens |-> [p \in 1..len |-> HUFF_BITS_MAX]],
                                   HUFF_BITS_MAX)))

(* ------------------------------------------------------------------ *)
(* uint32_t values, kept as two 16-bit halves                           *)
(* ------------------------------------------------------------------ *)
U32(hi, lo) == [hi |-> hi, lo |-> lo]
U32Zero == U32(0, 0)
U32Or(a, b) == U32(BitOr(a.hi, b.hi), BitOr(a.lo, b.lo))
\* m >> k for 0 <= k <= 31
U32Shr(m, k) ==
  IF k >= 16 THEN U32(0, Shr(m.hi, k - 16))
  ELSE U32(Shr(m.hi, k), Shr(m.lo, k) + Shl(m.hi % (2 ^ k), 16 - k))
\* (uint32_t)b << k for a b below 2^16 and 0 <= k <= 31
U32Shl(b, k) ==
  IF k >= 16 THEN U32(Shl(b % (2 ^ (32 - k)), k - 16), 0)
  ELSE U32(Shr(Shl(b, k), 16), U16(Shl(b, k)))
\* 1 << k for 0 <= k <= 31
U32Bit(k) == IF k >= 16 THEN U32(2 ^ (k - 16), 0) ELSE U32(0, 2 ^ k)
\* SET_UINT16_RAW / SET_UINT32_RAW / GET_...: little-endian bytes
UInt16Bytes(v) == <<U8(v), U8(Shr(U16(v), 8))>>
UInt32Bytes(m) == UInt16Bytes(m.lo) \o UInt16Bytes(m.hi)
GetUInt16(bytes, at) == bytes[at] + Shl(bytes[at + 1], 8)
GetUInt32(bytes, at) == U32(GetUInt16(bytes, at + 2), GetUInt16(bytes, at))
\* bytes[at .. at + Len(blk) - 1] := blk  (1-based "at")
Store(bytes, at, blk) ==
  [i \in 1..Len(bytes) |->
     IF i >= at /\ i < at + Len(blk) THEN blk[i - at + 1] ELSE bytes[i]]

(* ------------------------------------------------------------------ *)
(* Bitstream.h: OutputBitstream                                         *)
(* ------------------------------------------------------------------ *)
\* The stream writes into the chunk body; "mem" is that body from its first
\* byte, as long as ctx->out has advanced, a reserved and not yet written
\* byte being -1.  out and pntr are byte offsets into it.  "ub" records a
\* shift count outside 0..31 (undefined in C).
OutputBitstream_init ==
  [mem |-> <<-1, -1, -1, -1>>, out |-> 4, pntr |-> <<0, 2>>,
   mask |-> U32Zero, bits |-> 0, ub |-> FALSE]

WriteBits(ctx, b, n) ==
  LET bits == U8(ctx.bits + n)
      k == 32 - bits
      defined == k >= 0 /\ k <= 31
      mask == IF defined THEN U32Or(ctx.mask, U32Shl(b, k)) ELSE ctx.mask
  IN IF bits > 16
     THEN [mem  |-> Store(ctx.mem, ctx.pntr[1] + 1, UInt16Bytes(mask.hi)) \o <<-1, -1>>,
           out  |-> ctx.out + 2,
           pntr |-> <<ctx.pntr[2], ctx.out>>,
           mask |-> U32(mask.lo, 0),
           bits |-> bits % 16,
           ub   |-> ctx.ub \/ ~defined]
     ELSE [ctx EXCEPT !.mask = mask, !.bits = bits, !.ub = ctx.ub \/ ~defined]

WriteRawByte(ctx, x) ==
  [ctx EXCEPT !.mem = Append(ctx.mem, x), !.out = ctx.out + 1]
WriteRawUInt16(ctx, x) ==
  [ctx EXCEPT !.mem = ctx.mem \o UInt16Bytes(x), !.out = ctx.out + 2]
WriteRawUInt32(ctx, x) ==
  [ctx EXCEPT !.mem = ctx.mem \o UInt32Bytes(x), !.out = ctx.out + 4]
\* A Finish that leaves the last two words of the stream unwritten.
FinishUnflushed(ctx) == ctx
Finish(ctx) ==
  [ctx EXCEPT !.mem = Store(Store(ctx.mem, ctx.pntr[1] + 1, UInt16Bytes(ctx.mask.hi)),
                            ctx.pntr[2] + 1, UInt16Bytes(0))]

EncodeSymbol(encoder, sym, bits) ==
  WriteBits(bits, encoder.codes[sym], encoder.lens[sym])

(* ------------------------------------------------------------------ *)
(* XpressDictionary.h                                                   *)
(* ------------------------------------------------------------------ *)
\* Pointers into the input are addresses; inp = [base, bytes] is the caller's
\* input buffer, base the address of its first byte.
Deref(inp, p) == inp.bytes[p - inp.base + 1]

WindowSize == Shl(CHUNK_SIZE, 1)
HashSize == Shl(1, HASH_BITS)
HashShift == (HASH_BITS + 2) \div 3

\* table is zeroed by memset: a slot never written reads NULL.  window is not
\* initialised: a slot never written reads what malloc left there ("garbage").
XpressDictionary_init(start, end, garbage) ==
  [start |-> start, end |-> end, end2 |-> end - 2,
   table |-> <<>>, window |-> <<>>, garbage |-> garbage]
TableGet(ctx, h) == IF h \in DOMAIN ctx.table THEN ctx.table[h] ELSE NULL
WindowGet(ctx, pos) == IF pos \in DOMAIN ctx.window THEN ctx.window[pos] ELSE ctx.garbage
Put(f, k, v) == IF k \in DOMAIN f THEN [f EXCEPT ![k] = v] ELSE (k :> v) @@ f

WindowPos(ctx, x) == (x - ctx.start) % WindowSize
\* A hash that moves on by ceil((HASH_BITS + 2) / 3) = 6 bits a byte.
HashUpdateBySix(h, c) == BitXor(Shl(h, 6), c) % HashSize
HashUpdate(h, c) == BitXor(Shl(h, HashShift), c) % HashSize

\* do { a0 = *a++; b0 = *b++; } while (b < end && a0 == b0): the loop leaves
\* after its k-th round, the first one with b + k = end or a mismatch in it.
GetMatchLength(inp, a, b, end) ==
  LET rounds == {k \in 1..MAX(1, end - b) :
                   ~(b + k < end /\ Deref(inp, a + k - 1) = Deref(inp, b + k - 1))}
      k == CHOOSE r \in rounds : \A o \in 1..(r - 1) : o \notin rounds
  IN k - 1

\* One round of Fill's while loop.
FillStep(f, inp) ==
  LET hash == HashUpdate(f.hash, Deref(inp, f.data + 2))
  IN [f EXCEPT !.hash = hash,
               !.ctx.window = Put(f.ctx.window, f.pos, TableGet(f.ctx, hash)),
               !.ctx.table = Put(f.ctx.table, hash, f.data),
               !.pos = f.pos + 1,
               !.data = f.data + 1]

RECURSIVE FillSteps(_, _, _)
FillSteps(f, inp, n) ==
  IF n <= 0 THEN f
  ELSE IF n = 1 THEN FillStep(f, inp)
  ELSE LET half == FillSteps(f, inp, n \div 2)
       IN IF half.pos >= 0 THEN FillSteps(half, inp, n - (n \div 2)) ELSE half

\* Fill: the dictionary after the call.
Fill(ctx, inp, data) ==
  IF data >= ctx.end2 THEN ctx
  ELSE LET endx == IF (data + CHUNK_SIZE) < ctx.end2 THEN data + CHUNK_SIZE ELSE ctx.end2
           f0 == [ctx |-> ctx, pos |-> WindowPos(ctx, data), data |-> data,
                  hash |-> HashUpdate(Deref(inp, data), Deref(inp, data + 1))]
       IN FillSteps(f0, inp, endx - data).ctx

\* A chain walk that stops at a null entry only, not at MAX_OFFSET.
RECURSIVE FindChainAnyOffset(_, _, _, _, _, _, _)
FindChainAnyOffset(ctx, inp, data, x, chain_length, len, offset) ==
  IF ~(chain_length # 0 /\ x # NULL)
  THEN [len |-> len, offset |-> offset]
  ELSE LET hit == Deref(inp, x) = Deref(inp, data)
                  /\ Deref(inp, x + 1) = Deref(inp, data + 1)
           l == IF hit THEN GetMatchLength(inp, x, data, ctx.end) ELSE 0
           next == WindowGet(ctx, WindowPos(ctx, x))
       IN IF hit /\ l > len
          THEN FindChainAnyOffset(ctx, inp, data, next, chain_length - 1, l, data - x)
          ELSE FindChainAnyOffset(ctx, inp, data, next, chain_length - 1, len, offset)

\* A test that lets a later candidate of the same length replace the match.
BetterOrEqual(l, len) == l >= len
\* Line 197: "if (l > len)".
Better(l, len) == l > len

\* Find's for loop from the chain entry x on; [len, offset] when it ends.
RECURSIVE FindChain(_, _, _, _, _, _, _)
FindChain(ctx, inp, data, x, chain_length, len, offset) ==
  IF ~(chain_length # 0 /\ x >= data - MAX_OFFSET)
  THEN [len |-> len, offset |-> offset]
  ELSE LET hit == Deref(inp, x) = Deref(inp, data)
                  /\ Deref(inp, x + 1) = Deref(inp, data + 1)
           l == IF hit THEN GetMatchLength(inp, x, data, ctx.end) ELSE 0
       IN IF hit /\ Better(l, len)
          THEN IF l >= NICE_LENGTH
               THEN [len |-> l, offset |-> data - x]
               ELSE FindChain(ctx, inp, data, WindowGet(ctx, WindowPos(ctx, x)),
                              chain_length - 1, l, data - x)
          ELSE FindChain(ctx, inp, data, WindowGet(ctx, WindowPos(ctx, x)),
                         chain_length - 1, len, offset)

\* The candidates x the for loop of Find visits, in the order of the walk.
RECURSIVE FindVisited(_, _, _, _, _, _)
FindVisited(ctx, inp, data, x, chain_length, len) ==
  IF ~(chain_length # 0 /\ x >= data - MAX_OFFSET) THEN <<>>
  ELSE LET hit == Deref(inp, x) = Deref(inp, data)
                  /\ Deref(inp, x + 1) = Deref(inp, data + 1)
           l == IF hit THEN GetMatchLength(inp, x, data, ctx.end) ELSE 0
       IN IF hit /\ Better(l, len)
          THEN IF l >= NICE_LENGTH THEN <<x>>
               ELSE <<x>> \o FindVisited(ctx, inp, data, WindowGet(ctx, WindowPos(ctx, x)),
                                          chain_length - 1, l)
          ELSE <<x>> \o FindVisited(ctx, inp, data, WindowGet(ctx, WindowPos(ctx, x)),
                                     chain_length - 1, len)

\* offset is the caller's variable: it keeps its value when no match is found.
Find(ctx, inp, data, offset) ==
  FindChain(ctx, inp, data, WindowGet(ctx, WindowPos(ctx, data)), MAX_CHAIN, 2, offset)

(* ------------------------------------------------------------------ *)
(* xh_compress_lz77                                                     *)
(* ------------------------------------------------------------------ *)
ZeroCounts == Array([i \in 0..(SYMBOLS - 1) |-> 0])

\* (uint8_t)log2(x) for 1 <= x < 2^16
Log2(x) == CHOOSE k \in 0..15 : 2 ^ k <= x /\ x < 2 ^ (k + 1)

\* A record that takes the 16-bit form for every length from 15 on.
LengthExtensionWide(len) ==
  IF len > 65535 THEN <<255, 0, 0>> \o UInt32Bytes(U32(Shr(len, 16), U16(len)))
  ELSE IF len >= 15 THEN <<255>> \o UInt16Bytes(len)
  ELSE <<>>
\* The bytes after the symbol and the offset of a match record, len = length - 3
LengthExtension(len) ==
  IF len > 65535 THEN <<255, 0, 0>> \o UInt32Bytes(U32(Shr(len, 16), U16(len)))
  ELSE IF len >= 255 + 15 THEN <<255>> \o UInt16Bytes(len)
  ELSE IF len >= 15 THEN <<U8(len - 15)>>
  ELSE <<>>

\* The state of the function between two rounds of its for loop: in, rem, the
\* scratch buffer written so far (out), mask, the place of the open mask in the
\* buffer (mask_out, 0 before the first), i and symbol_counts.  "matches" lists
\* the match records written, with their place in the whole input.
Lz77Start(in, in_len) ==
  [in |-> in, rem |-> in_len, out |-> <<>>, mask |-> U32Zero, mask_out |-> 0,
   i |-> 0, symbol_counts |-> ZeroCounts, matches |-> <<>>]

\* One round of "for (i = 0; i < 32 && rem > 0; ++i)", with the head of the
\* while loop before the first round of a group and "Save mask" after the last.
Lz77Group(st) ==
  IF st.mask_out = 0 \/ st.i = 32
  THEN [st EXCEPT !.mask = U32Zero, !.mask_out = Len(st.out) + 1,
                  !.out = st.out \o <<-1, -1, -1, -1>>, !.i = 0]
  ELSE st

\* A match that is never cut to what is left of the chunk.
NoClamp(len, rem) == len
\* Line 88: "if (len > (uint32_t)rem) { len = rem; }".
ClampLength(len, rem) == IF len > rem THEN rem ELSE len

\* Lines 93-105: the symbol and the scratch bytes of a match of "length"
\* bytes at distance "offset".
MatchRecord(offset, length) ==
  LET len == length - 3
      off_bits == Log2(U16(BitOr(offset, 1)))
      sym == U8(BitOr(Shl(off_bits, 4), MIN(15, len)))
      off == BitXor(offset, Shl(1, off_bits))
  IN [sym |-> sym, bytes |-> <<sym>> \o UInt16Bytes(off) \o LengthExtension(len)]

\* Lines 83-115: the match or the literal at g.in.
Lz77Record(g, inp, d) ==
  LET mask == U32Shr(g.mask, 1)
      f == IF g.rem >= 3 THEN Find(d, inp, g.in, 0) ELSE [len |-> 0, offset |-> 0]
  IN    IF g.rem >= 3 /\ f.len >= 3
        THEN LET length == ClampLength(f.len, g.rem)
                 rec == MatchRecord(f.offset, length)
             IN [g EXCEPT !.in = g.in + length, !.rem = g.rem - length,
                          !.mask = U32Or(mask, U32(32768, 0)),
                          !.symbol_counts[256 + rec.sym] = @ + 1,
                          !.out = g.out \o rec.bytes,
                          !.matches = Append(g.matches,
                                             [pos |-> g.in - inp.base, offset |-> f.offset,
                                              length |-> length]),
                          !.i = g.i + 1]
        ELSE [g EXCEPT !.in = g.in + 1, !.rem = g.rem - 1, !.mask = mask,
                       !.symbol_counts[Deref(inp, g.in)] = @ + 1,
                       !.out = Append(g.out, Deref(inp, g.in)),
                       !.i = g.i + 1]

\* Line 116: the mask is saved when its group of 32 or the chunk is done.
Lz77Save(done) ==
  IF done.i = 32 \/ done.rem <= 0
  THEN [done EXCEPT !.out = Store(done.out, done.mask_out, UInt32Bytes(done.mask))]
  ELSE done

Lz77Item(st, inp, d) == Lz77Save(Lz77Record(Lz77Group(st), inp, d))

RECURSIVE Lz77Items(_, _, _, _)
Lz77Items(st, inp, d, n) ==
  IF st.rem <= 0 \/ n <= 0 THEN st
  ELSE IF n = 1 THEN Lz77Item(st, inp, d)
  ELSE LET half == Lz77Items(st, inp, d, n \div 2)
       IN IF half.rem <= 0 THEN half ELSE Lz77Items(half, inp, d, n - (n \div 2))

\* An xh_compress_lz77 that never adds the end-of-stream record.
Lz77FinishNoEnd(st, in_orig, in_len, in_end) ==
  LET out == Store(st.out, st.mask_out, UInt32Bytes(U32Shr(st.mask, 32 - st.i)))
  IN [buf |-> out, buf_len |-> Len(out), high |-> Len(out),
      symbol_counts |-> st.symbol_counts, matches |-> st.matches]

\* Lines 119-143: the last mask is moved down, the end-of-stream record is
\* added when the chunk ends the input, the mask is saved again.  The 32-bit
\* store of the record's zeros reaches one byte past the three that count:
\* "high" is the number of scratch bytes written.
Lz77Finish(st, in_orig, in_len, in_end) ==
  LET mask == U32Shr(st.mask, 32 - st.i)
      last == in_orig + in_len = in_end
      eos == IF ~last THEN [st EXCEPT !.mask = mask]
             ELSE IF st.i = 32
             THEN [st EXCEPT !.mask = mask,
                             !.out = st.out \o UInt32Bytes(U32(0, 1)) \o <<0, 0, 0>>,
                             !.symbol_counts[STREAM_END] = @ + 1]
             ELSE [st EXCEPT !.mask = U32Or(mask, U32Bit(st.i)),
                             !.out = st.out \o <<0, 0, 0>>,
                             !.symbol_counts[STREAM_END] = @ + 1]
      out == Store(eos.out, eos.mask_out, UInt32Bytes(eos.mask))
  IN [buf |-> out, buf_len |-> Len(out),
      high |-> Len(out) + (IF last THEN 1 ELSE 0),
      symbol_counts |-> eos.symbol_counts, matches |-> eos.matches]

\* xh_compress_lz77(in, in_len, in_end, buf, symbol_counts, d): the scratch
\* buffer and the counts it leaves, and the dictionary after Fill.
Lz77Loop(inp, in, in_len, in_end, filled) ==
  [r |-> Lz77Finish(Lz77Items(Lz77Start(in, in_len), inp, filled, in_len),
                    in, in_len, in_end),
   d |-> filled]
Lz77Result(lz) ==
  [buf |-> lz.r.buf, buf_len |-> lz.r.buf_len, high |-> lz.r.high,
   symbol_counts |-> lz.r.symbol_counts, matches |-> lz.r.matches, d |-> lz.d]
xh_compress_lz77(inp, in, in_len, in_end, d) ==
  Lz77Result(Lz77Loop(inp, in, in_len, in_end, Fill(d, inp, in)))

(* ------------------------------------------------------------------ *)
(* xh_compress_no_matching, xh_calc_compressed_len*                     *)
(* ------------------------------------------------------------------ *)
\* The groups "lo .. hi" of the while loop: a zero mask and 32 literals each.
RECURSIVE LiteralGroups(_, _, _, _)
LiteralGroups(inp, in, lo, hi) ==
  IF lo > hi THEN <<>>
  ELSE IF lo = hi
  THEN <<0, 0, 0, 0>> \o [k \in 1..32 |-> Deref(inp, in + 32 * (lo - 1) + k - 1)]
  ELSE LET mid == (lo + hi) \div 2
       IN LiteralGroups(inp, in, lo, mid) \o LiteralGroups(inp, in, mid + 1, hi)

xh_compress_no_matching(inp, in, in_len, is_end) ==
  LET groups == IF in_len > 32 THEN (in_len - 1) \div 32 ELSE 0
      rem == in_len - 32 * groups
      tail == [k \in 1..rem |-> Deref(inp, in + 32 * groups + k - 1)]
      body == LiteralGroups(inp, in, 1, groups)
      out == IF ~is_end THEN body \o <<0, 0, 0, 0>> \o tail
             ELSE IF rem = 32
             THEN body \o <<0, 0, 0, 0>> \o tail \o UInt32Bytes(U32(0, 1)) \o <<0, 0, 0>>
             ELSE body \o UInt32Bytes(U32Bit(rem)) \o tail \o <<0, 0, 0>>
      symbol_counts ==
        Array([s \in 0..(SYMBOLS - 1) |->
                 IF s < HALF_SYMBOLS
                 THEN Cardinality({k \in 0..(in_len - 1) : Deref(inp, in + k) = s})
                 ELSE IF s = STREAM_END /\ is_end THEN 1 ELSE 0])
  IN [buf |-> out, buf_len |-> Len(out),
      high |-> Len(out) + (IF is_end THEN 1 ELSE 0),
      symbol_counts |-> symbol_counts]

\* sum of f[i] for i in lo..hi
RECURSIVE Sum(_, _, _)
Sum(f, lo, hi) ==
  IF lo > hi THEN 0
  ELSE IF lo = hi THEN f[lo]
  ELSE LET mid == (lo + hi) \div 2 IN Sum(f, lo, mid) + Sum(f, mid + 1, hi)

\* A length that leaves the raw length bytes of the matches out.
xh_calc_compressed_len_no_raw(lens, symbol_counts, buf_len) ==
  LET bits == Array([i \in 0..(SYMBOLS - 1) |->
                       IF i < 256 THEN lens[i] * symbol_counts[i]
                       ELSE (lens[i] + (Shr(i, 4) % 16)) * symbol_counts[i]])
  IN ((16 + Sum(bits, 0, SYMBOLS - 1) + 15) \div 16) * 2

xh_calc_compressed_len(lens, symbol_counts, buf_len) ==
  LET bits == Array([i \in 0..(SYMBOLS - 1) |->
                       IF i < 256 THEN lens[i] * symbol_counts[i]
                       ELSE (lens[i] + (Shr(i, 4) % 16)) * symbol_counts[i]])
      sym_bits == 16 + Sum(bits, 0, 255) + Sum(bits, 256, SYMBOLS - 1)
      literal_syms == Sum(symbol_counts, 0, 255)
      match_syms == Sum(symbol_counts, 256, SYMBOLS - 1)
  IN ((sym_bits + 15) \div 16) * 2
       + (buf_len - (literal_syms + match_syms * 3
                       + ((literal_syms + match_syms + 31) \div 32) * 4))

xh_calc_compressed_len_no_matching(lens, symbol_counts) ==
  LET bits == Array([i \in 0..256 |-> lens[i] * symbol_counts[i]])
  IN ((16 + Sum(bits, 0, 256) + 15) \div 16) * 2

(* ------------------------------------------------------------------ *)
(* xh_compress_encode                                                   *)
(* ------------------------------------------------------------------ *)
\* The state between two rounds: "in" is the 1-based place in the scratch
\* buffer, in_end the place after its last byte; "syms" lists the Huffman
\* symbols written so far.

\* Lines 200-229: one round of the mask loop (nothing when its test fails).
EncodeItem(e, buf, in_end, encoder) ==
  IF ~(e.mask # U32Zero /\ e.in < in_end) THEN e
  ELSE IF (e.mask.lo % 2) = 1
  THEN LET sym == buf[e.in]
           off == GetUInt16(buf, e.in + 1)
           b1 == EncodeSymbol(encoder, 256 + sym, e.bstr)
           has8 == (sym % 16) = 15
           len8 == buf[e.in + 3]
           has16 == has8 /\ len8 = 255
           len16 == GetUInt16(buf, e.in + 4)
           has32 == has16 /\ len16 = 0
           b2 == IF has8 THEN WriteRawByte(b1, len8) ELSE b1
           b3 == IF has16 THEN WriteRawUInt16(b2, len16) ELSE b2
           b4 == IF has32 THEN WriteRawUInt32(b3, GetUInt32(buf, e.in + 6)) ELSE b3
       IN [e EXCEPT !.in = e.in + 3 + (IF has8 THEN 1 ELSE 0) + (IF has16 THEN 2 ELSE 0)
                                + (IF has32 THEN 4 ELSE 0),
                    !.bstr = WriteBits(b4, off, Shr(sym, 4)),
                    !.syms = Append(e.syms, 256 + sym),
                    !.i = e.i - 1, !.mask = U32Shr(e.mask, 1)]
  ELSE [e EXCEPT !.in = e.in + 1,
                 !.bstr = EncodeSymbol(encoder, buf[e.in], e.bstr),
                 !.syms = Append(e.syms, buf[e.in]),
                 !.i = e.i - 1, !.mask = U32Shr(e.mask, 1)]

RECURSIVE EncodeItems(_, _, _, _, _)
EncodeItems(e, buf, in_end, encoder, n) ==
  IF n <= 0 THEN e
  ELSE IF n = 1 THEN EncodeItem(e, buf, in_end, encoder)
  ELSE LET half == EncodeItems(e, buf, in_end, encoder, n \div 2)
       IN IF half.in >= 0 THEN EncodeItems(half, buf, in_end, encoder, n - (n \div 2))
          ELSE half

\* Line 232: the literals lo .. hi of the scratch buffer.
RECURSIVE EncodeLiterals(_, _, _, _, _)
EncodeLiterals(e, buf, encoder, lo, hi) ==
  IF lo > hi THEN e
  ELSE IF lo = hi
  THEN [e EXCEPT !.in = lo + 1,
                 !.bstr = EncodeSymbol(encoder, buf[lo], e.bstr),
                 !.syms = Append(e.syms, buf[lo])]
  ELSE LET mid == (lo + hi) \div 2
           half == EncodeLiterals(e, buf, encoder, lo, mid)
       IN IF half.in >= 0 THEN EncodeLiterals(half, buf, encoder, mid + 1, hi) ELSE half

\* Lines 231-232: the literals left when the mask has run out of matches.
EncodeRest(items, buf, in_end, encoder) ==
  EncodeLiterals(items, buf, encoder, items.in, MIN(items.in + items.i, in_end) - 1)

\* One round of "while (in < in_end)": a fragment (nothing when in >= in_end).
EncodeFragment(e, buf, in_end, encoder) ==
  IF ~(e.in < in_end) THEN e
  ELSE EncodeRest(EncodeItems([e EXCEPT !.i = 32, !.mask = GetUInt32(buf, e.in),
                                         !.in = e.in + 4],
                              buf, in_end, encoder, 32),
                  buf, in_end, encoder)

RECURSIVE EncodeFragments(_, _, _, _, _)
EncodeFragments(e, buf, in_end, encoder, n) ==
  IF n <= 0 THEN e
  ELSE IF n = 1 THEN EncodeFragment(e, buf, in_end, encoder)
  ELSE LET half == EncodeFragments(e, buf, in_end, encoder, n \div 2)
       IN IF half.in >= 0 THEN EncodeFragments(half, buf, in_end, encoder, n - (n \div 2))
          ELSE half

\* xh_compress_encode(buf, buf + buf_len, out, encoder): the bytes it writes
\* from out on ("mem", -1 where it wrote none) and the symbols it encoded.
\* A fragment takes at least its 4 mask bytes, which bounds the rounds.
Encoded(e, bstr) == [mem |-> bstr.mem, syms |-> e.syms, ub |-> bstr.ub, in |-> e.in]
EncodeFinish(e) == Encoded(e, Finish(e.bstr))
xh_compress_encode(buf, buf_len, encoder) ==
  EncodeFinish(EncodeFragments([in |-> 1, i |-> 0, mask |-> U32Zero,
                                bstr |-> OutputBitstream_init, syms |-> <<>>],
                               buf, buf_len + 1, encoder, (buf_len + 3) \div 4))

(* ------------------------------------------------------------------ *)
(* xpress_huff_compress as a state machine                              *)
(* ------------------------------------------------------------------ *)
VARIABLES
  input,          \* the bytes at in .. in_end of the call
  in,             \* const uint8_t* in: the address of the next chunk
  in_len,         \* the input bytes not yet compressed
  out_mem,        \* the caller's output buffer from out_orig on, -1 = not written
  out,            \* uint8_t* out, as an offset from out_orig
  out_len,        \* the local out_len: the capacity left
  out_len_ptr,    \* *_out_len: the capacity on entry, the written length on success
  pc,             \* "entry", "loop", "returned"; "histogram", "coded" for the builders
  result,         \* the value returned: "none" before the return, "0", "ENOMEM", "ENOBUFS"
  allocated,      \* the malloc blocks not freed: "buf", "table", "window"
  buf,            \* the scratch buffer: what the last chunk left in it
  d,              \* XpressDictionary d
  symbol_counts,  \* uint32_t symbol_counts[SYMBOLS]
  encoder,        \* HuffmanEncoder encoder: lens and codes
  chunks          \* what each chunk did so far (history)

vars == <<input, in, in_len, out_mem, out, out_len, out_len_ptr, pc, result,
          allocated, buf, d, symbol_counts, encoder, chunks>>

MIN_DATA == HALF_SYMBOLS + 4

xpress_huff_max_compressed_size(n) ==
  n + 34 + (HALF_SYMBOLS + 2) + (HALF_SYMBOLS + 2) * (n \div CHUNK_SIZE)

\* A scratch buffer without room for the end-of-stream record.
BufSizeNoEnd(n) ==
  IF n >= CHUNK_SIZE THEN (CHUNK_SIZE \div 32) * 36
  ELSE ((n + 31) \div 32) * 36
\* The size of the scratch buffer (line 243); 0x1200C is CHUNK_SIZE/32*36 + 12.
BufSize(n) ==
  IF n >= CHUNK_SIZE THEN (CHUNK_SIZE \div 32) * 36 + 12
  ELSE ((n + 31) \div 32) * 36 + 4 + 8

\* The caller's buffers.  Addresses below InputBase are never mapped, so NULL
\* compares below data - MAX_OFFSET for every data in the input.
InputBase == MAX_OFFSET + 1
in_orig == InputBase
in_end == InputBase + Len(input)
Caller == [base |-> InputBase, bytes |-> input]

\* What malloc may have left in the slots of the window: a null pointer or
\* the address of an input byte.
Garbage == {NULL, InputBase}

\* Lines 276 / 311: the 512 lengths packed two to a byte.
LensHeader(lens) ==
  [k \in 1..HALF_SYMBOLS |-> U8(BitOr(lens[2 * k - 2], Shl(lens[2 * k - 1], 4)))]

\* mem[at .. ) := blk where blk is written (at is an offset, -1 = not written)
WriteAt(mem, at, blk) ==
  Array([i \in 1..MAX(Len(mem), at + Len(blk)) |->
           IF i > at /\ i <= at + Len(blk) /\ blk[i - at] # -1 THEN blk[i - at]
           ELSE IF i <= Len(mem) THEN mem[i] ELSE -1])

\* Lines 267 / 302: the chunk is done again without matches when it came out
\* longer than limit (CHUNK_SIZE + 2, or in_len + 36 for the last chunk).
NeverFallback(comp_len, limit) == FALSE
NeedsFallback(comp_len, limit) == comp_len > limit

\* Lines 275 / 285 / 310: the chunk, header and body, fits what is left.
FitsAlways(remaining, needed) == TRUE
Fits(remaining, needed) == ~(remaining < needed)

\* Lines 258-272 and 293-307: LZ77, the codes, the compressed length and the
\* literals-only fallback of one chunk of chunk_len bytes at in.
\* Lines 269-271 / 304-306: the chunk as literals only, with the slow codes.
ChunkSlow(lz, nm, slow) ==
  [buf |-> nm.buf, buf_len |-> nm.buf_len, high |-> MAX(lz.high, nm.high),
   symbol_counts |-> nm.symbol_counts, encoder |-> slow,
   comp_len |-> xh_calc_compressed_len_no_matching(slow.lens, nm.symbol_counts),
   matches |-> lz.matches, fallback |-> TRUE, d |-> lz.d]
ChunkNoMatching(lz, nm) == ChunkSlow(lz, nm, CreateCodesSlow(nm.symbol_counts))

\* Lines 262-267 / 297-302: the length with the fast codes decides.
ChunkChoice(lz, fast, comp_len, chunk_len, limit, is_end) ==
  IF NeedsFallback(comp_len, limit)
  THEN ChunkNoMatching(lz, xh_compress_no_matching(Caller, in, chunk_len, is_end))
  ELSE [buf |-> lz.buf, buf_len |-> lz.buf_len, high |-> lz.high,
        symbol_counts |-> lz.symbol_counts, encoder |-> fast,
        comp_len |-> comp_len,
        matches |-> lz.matches, fallback |-> FALSE, d |-> lz.d]
ChunkFast(lz, fast, chunk_len, limit, is_end) ==
  ChunkChoice(lz, fast, xh_calc_compressed_len(fast.lens, lz.symbol_counts, lz.buf_len),
              chunk_len, limit, is_end)
ChunkLz(lz, chunk_len, limit, is_end) ==
  ChunkFast(lz, CreateCodes(lz.symbol_counts), chunk_len, limit, is_end)
ChunkCodes(chunk_len, limit, is_end) ==
  ChunkLz(xh_compress_lz77(Caller, in, chunk_len, in_end, d), chunk_len, limit, is_end)

\* The header and the body at out, and the record of the chunk.
EmittedBody(c, enc, chunk_len, is_end) ==
     [mem |-> WriteAt(out_mem, out, LensHeader(c.encoder.lens) \o enc.mem),
      log |-> [at |-> out, in_at |-> in - in_orig, in_len |-> chunk_len,
               comp_len |-> c.comp_len, body |-> enc.mem, syms |-> enc.syms,
               matches |-> c.matches, fallback |-> c.fallback, final |-> is_end,
               count_end |-> c.symbol_counts[STREAM_END],
               buf_high |-> c.high, ub |-> enc.ub]]

\* Lines 275-277 / 310-312 on a chunk c that fits: header and body are written
\* at out; the record of the chunk for the history.
Emitted(c, chunk_len, is_end) ==
  EmittedBody(c, xh_compress_encode(c.buf, c.buf_len, c.encoder), chunk_len, is_end)

\* The inputs of the model: every string of up to MaxShort bytes over two
\* values, and six patterns cut to lengths around the chunk boundaries.
MaxShort == 3
MaxChunks == 3
RECURSIVE Strings(_)
Strings(n) ==
  IF n = 0 THEN {<<>>}
  ELSE LET shorter == Strings(n - 1)
       IN shorter \cup {Append(s, b) : s \in {t \in shorter : Len(t) = n - 1}, b \in {65, 66}}
Pattern(kind, n) ==
  [i \in 1..n |->
     CASE kind = "run"      -> 65
       [] kind = "pair"     -> 65 + (i % 2)
       [] kind = "distinct" -> (i - 1) % 256
       [] kind = "near"     -> (i - 1) % (CHUNK_SIZE - 12)
       [] kind = "far"      -> (i - 1) % (CHUNK_SIZE + 8)
       [] kind = "mixed"    -> 65 + (((i * i) \div 3) % 4)]
PatternLengths ==
  {5, 20} \cup {k * CHUNK_SIZE + r : k \in 1..(MaxChunks - 1), r \in {0, 1, 8}}
Inputs ==
  Strings(MaxShort)
    \cup {Pattern(kind, n) : kind \in {"run", "pair", "distinct", "near", "far", "mixed"},
                             n \in PatternLengths}
\* The capacities the caller may pass for an input of n bytes.
Capacities(n) ==
  {xpress_huff_max_compressed_size(n), HALF_SYMBOLS + CHUNK_SIZE, 0}

Init ==
  /\ input \in Inputs
  /\ out_len_ptr \in Capacities(Len(input))
  /\ in = in_orig
  /\ in_len = Len(input)
  /\ out_mem = <<>>
  /\ out = 0
  /\ out_len = 0
  /\ pc = "entry"
  /\ result = "none"
  /\ allocated = {}
  /\ buf = <<>>
  /\ d = XpressDictionary_init(NULL, NULL, NULL)
  /\ symbol_counts = ZeroCounts
  /\ encoder = [lens |-> ZeroCodes, codes |-> ZeroCodes]
  /\ chunks = <<>>

\* Line 241: the empty input returns at once.
ReturnEmpty ==
  /\ pc = "entry" /\ in_len = 0
  /\ out_len_ptr' = 0
  /\ result' = "0"
  /\ pc' = "returned"
  /\ UNCHANGED <<input, in, in_len, out_mem, out, out_len, allocated, buf, d,
                 symbol_counts, encoder, chunks>>

\* Lines 243-244: malloc of the scratch buffer fails.
ReturnNoMemory ==
  /\ pc = "entry" /\ in_len # 0
  /\ result' = "ENOMEM"
  /\ pc' = "returned"
  /\ UNCHANGED <<input, in, in_len, out_mem, out, out_len, out_len_ptr, allocated,
                 buf, d, symbol_counts, encoder, chunks>>

\* Lines 243-252: the scratch buffer, the locals and the dictionary.
Enter ==
  /\ pc = "entry" /\ in_len # 0
  /\ \E garbage \in Garbage : d' = XpressDictionary_init(in, in_end, garbage)
  /\ allocated' = {"buf", "table", "window"}
  /\ out_len' = out_len_ptr
  /\ pc' = "loop"
  /\ UNCHANGED <<input, in, in_len, out_mem, out, out_len_ptr, result, buf,
                 symbol_counts, encoder, chunks>>

\* Lines 255-280: one round of "while (in_len > CHUNK_SIZE)".
Chunk ==
  /\ pc = "loop" /\ in_len > CHUNK_SIZE
  /\ \E c \in {ChunkCodes(CHUNK_SIZE, CHUNK_SIZE + 2, FALSE)} :
       /\ buf' = c.buf
       /\ d' = c.d
       /\ symbol_counts' = c.symbol_counts
       /\ encoder' = c.encoder
       /\ IF ~Fits(out_len, HALF_SYMBOLS + c.comp_len)
          THEN /\ allocated' = allocated \ {"buf"}
               /\ result' = "ENOBUFS"
               /\ pc' = "returned"
               /\ UNCHANGED <<in, in_len, out_mem, out, out_len, chunks>>
          ELSE \E e \in {Emitted(c, CHUNK_SIZE, FALSE)} :
               /\ out_mem' = e.mem
               /\ chunks' = Append(chunks, e.log)
               /\ in' = in + CHUNK_SIZE
               /\ in_len' = in_len - CHUNK_SIZE
               /\ out' = out + HALF_SYMBOLS + c.comp_len
               /\ out_len' = out_len - (HALF_SYMBOLS + c.comp_len)
               /\ UNCHANGED <<allocated, result, pc>>
  /\ UNCHANGED <<input, out_len_ptr>>

\* Lines 282-321: the last chunk, the cleanup and the return.
LastChunk ==
  /\ pc = "loop" /\ ~(in_len > CHUNK_SIZE)
  /\ IF in_len = 0
     THEN /\ IF ~Fits(out_len, MIN_DATA)
             THEN /\ result' = "ENOBUFS"
                  /\ UNCHANGED <<out_mem, out, out_len_ptr>>
             ELSE /\ out_mem' = WriteAt(out_mem, out,
                                        [i \in 1..MIN_DATA |->
                                           IF i = Shr(STREAM_END, 1) + 1
                                           THEN STREAM_END_LEN_1 ELSE 0])
                  /\ out' = out + MIN_DATA
                  /\ out_len_ptr' = out + MIN_DATA
                  /\ result' = "0"
          /\ UNCHANGED <<buf, d, symbol_counts, encoder, chunks>>
     ELSE \E c \in {ChunkCodes(in_len, in_len + 36, TRUE)} :
          /\ buf' = c.buf
          /\ d' = c.d
          /\ symbol_counts' = c.symbol_counts
          /\ encoder' = c.encoder
          /\ IF ~Fits(out_len, HALF_SYMBOLS + c.comp_len)
             THEN /\ result' = "ENOBUFS"
                  /\ UNCHANGED <<out_mem, out, out_len_ptr, chunks>>
             ELSE \E e \in {Emitted(c, in_len, TRUE)} :
                  /\ out_mem' = e.mem
                  /\ chunks' = Append(chunks, e.log)
                  /\ out' = out + HALF_SYMBOLS + c.comp_len
                  /\ out_len_ptr' = out + HALF_SYMBOLS + c.comp_len
                  /\ result' = "0"
  /\ allocated' = allocated \ {"buf"}
  /\ pc' = "returned"
  /\ UNCHANGED <<input, in, in_len, out_len>>

Next == ReturnEmpty \/ ReturnNoMemory \/ Enter \/ Chunk \/ LastChunk

Spec == Init /\ [][Next]_vars

(* ------------------------------------------------------------------ *)
(* The Xpress-Huffman decoder (MS-XCA), told the decompressed size      *)
(* ------------------------------------------------------------------ *)
\* The decoder is not part of the compressor.  It reads, for each CHUNK_SIZE
\* bytes of output, a 256-byte header of lengths and a stream of 16-bit
\* words, rebuilds the canonical codes from the lengths alone, and stops when
\* it has produced the n bytes it was asked for.  "bits" is its bit register,
\* most significant bit first; "bad" records a stream it cannot read.
DecoderLens(stream, at) ==
  Array([s \in 0..(SYMBOLS - 1) |->
           IF (s % 2) = 0 THEN stream[at + (s \div 2)] % 16
           ELSE stream[at + (s \div 2)] \div 16])

\* The symbols of each length, ascending, and the first code of each length.
DecoderTable(lens) ==
  LET syms == [l \in 1..HUFF_BITS_MAX |-> SelectSeq(SymbolIndices, LAMBDA s : lens[s] = l)]
      first == [l \in 1..HUFF_BITS_MAX |->
                  Sum([k \in 1..HUFF_BITS_MAX |->
                         IF k < l THEN Len(syms[k]) * (2 ^ (l - k)) ELSE 0],
                      1, HUFF_BITS_MAX)]
  IN [syms |-> Array(syms), first |-> Array(first)]

WordBits(w) == [i \in 1..16 |-> Shr(w, 16 - i) % 2]
BitsValue(bits, n) == Sum([i \in 1..n |-> bits[i] * (2 ^ (n - i))], 1, n)

\* The 16-bit word at cp joins the register when fewer than 16 bits are left.
Refill(dec, stream) ==
  IF Len(dec.bits) >= 16 THEN dec
  ELSE IF dec.cp + 1 > Len(stream) THEN [dec EXCEPT !.bad = TRUE, !.bits = dec.bits \o WordBits(0)]
  ELSE [dec EXCEPT !.bits = dec.bits \o WordBits(GetUInt16(stream, dec.cp)),
                   !.cp = dec.cp + 2]

Consume(dec, stream, n) ==
  Refill([dec EXCEPT !.bits = SubSeq(dec.bits, n + 1, Len(dec.bits))], stream)

\* One symbol: a literal, or a match with its raw length bytes and offset bits.
DecodeSymbol(dec, stream, table) ==
  LET fits == {l \in 1..HUFF_BITS_MAX :
                 /\ BitsValue(dec.bits, l) >= table.first[l]
                 /\ BitsValue(dec.bits, l) < table.first[l] + Len(table.syms[l])}
  IN IF fits = {} THEN [dec EXCEPT !.bad = TRUE, !.out = Append(dec.out, -1)]
     ELSE
       LET l == CHOOSE x \in fits : TRUE
           sym == table.syms[l][BitsValue(dec.bits, l) - table.first[l] + 1]
           d1 == Consume(dec, stream, l)
       IN IF sym < 256 THEN [d1 EXCEPT !.out = Append(d1.out, sym), !.syms = Append(d1.syms, sym)]
          ELSE
            LET nibble == (sym - 256) % 16
                off_bits == (sym - 256) \div 16
                len8 == stream[d1.cp]
                len16 == GetUInt16(stream, d1.cp + 1)
                extra == IF nibble < 15 THEN 0 ELSE IF len8 < 255 THEN 1
                         ELSE IF len16 # 0 THEN 3 ELSE 7
                length == 3 + (IF nibble < 15 THEN nibble
                               ELSE IF len8 < 255 THEN len8 + 15
                               ELSE IF len16 # 0 THEN len16
                               ELSE GetUInt16(stream, d1.cp + 3)
                                      + Shl(GetUInt16(stream, d1.cp + 5), 16))
                d2 == [d1 EXCEPT !.cp = d1.cp + extra]
                offset == BitsValue(d2.bits, off_bits) + 2 ^ off_bits
                d3 == Consume(d2, stream, off_bits)
                from == Len(d3.out) - offset
            IN IF offset > Len(d3.out) THEN [d3 EXCEPT !.bad = TRUE, !.out = Append(d3.out, -1)]
               ELSE [d3 EXCEPT !.out = d3.out \o [j \in 1..length |->
                                                    d3.out[from + 1 + ((j - 1) % offset)]],
                               !.syms = Append(d3.syms, sym)]

\* Up to k symbols of a block, until "stop" bytes are out.
RECURSIVE DecodeSymbols(_, _, _, _, _)
DecodeSymbols(dec, stream, table, stop, k) ==
  IF k <= 0 \/ Len(dec.out) >= stop THEN dec
  ELSE IF k = 1 THEN DecodeSymbol(dec, stream, table)
  ELSE LET half == DecodeSymbols(dec, stream, table, stop, k \div 2)
       IN IF Len(half.out) >= stop THEN half
          ELSE DecodeSymbols(half, stream, table, stop, k - (k \div 2))

\* The blocks from dec.cp on, until n bytes are out.
RECURSIVE DecodeBlocks(_, _, _)
DecodeBlocks(dec, stream, n) ==
  IF Len(dec.out) >= n \/ dec.bad THEN dec
  ELSE IF dec.cp + HALF_SYMBOLS + 3 > Len(stream) THEN [dec EXCEPT !.bad = TRUE]
  ELSE LET table == DecoderTable(DecoderLens(stream, dec.cp))
           start == [dec EXCEPT !.cp = dec.cp + HALF_SYMBOLS + 4,
                                !.bits = WordBits(GetUInt16(stream, dec.cp + HALF_SYMBOLS))
                                           \o WordBits(GetUInt16(stream, dec.cp + HALF_SYMBOLS + 2))]
           stop == MIN(Len(dec.out) + CHUNK_SIZE, n)
           block == DecodeSymbols(start, stream, table, stop, CHUNK_SIZE)
       IN IF Len(block.out) >= stop THEN DecodeBlocks(block, stream, n)
          ELSE [block EXCEPT !.bad = TRUE]

Decompress(stream, n) ==
  DecodeBlocks([cp |-> 1, bits |-> <<>>, out |-> <<>>, syms |-> <<>>, bad |-> FALSE],
               stream, n)

\* The call has returned 0: the output is complete.
Succeeded == pc = "returned" /\ result = "0"
Compressed == SubSeq(out_mem, 1, out_len_ptr)

\* C1: decoding the output of a successful call with a conforming decoder
\* gives back exactly the input: the decoder reads every block without
\* error and the bytes it produces are the input bytes, in order.
C1_RoundTrip ==
  Succeeded =>
    \E dec \in {Decompress(Compressed, Len(input))} :
      /\ ~dec.bad
      /\ dec.out = input

\* A round trip of more than one chunk in which literals and matches, among
\* them one with a raw length byte, occur.
C1_Witness ==
  /\ Succeeded
  /\ Len(chunks) >= 2
  /\ \E i \in 1..Len(chunks) : \E k \in 1..Len(chunks[i].syms) :
       chunks[i].syms[k] > 256 /\ (chunks[i].syms[k] % 16) = 15
  /\ Decompress(Compressed, Len(input)).out = input

(* ------------------------------------------------------------------ *)
(* The size, the layout and the end of the stream                       *)
(* ------------------------------------------------------------------ *)
Returned == pc = "returned"
NonEmpty == Len(input) > 0
Count(seq, v) == Cardinality({k \in 1..Len(seq) : seq[k] = v})

C3_LengthIsBytesWritten ==
  /\ \A i \in 1..Len(chunks) :
       /\ chunks[i].comp_len = Len(chunks[i].body)
       /\ \A k \in 1..Len(chunks[i].body) : chunks[i].body[k] \in 0..255
       /\ chunks[i].at = IF i = 1 THEN 0
                         ELSE chunks[i - 1].at + HALF_SYMBOLS + chunks[i - 1].comp_len
  /\ (Succeeded /\ NonEmpty) =>
       /\ Len(chunks) >= 1
       /\ out_len_ptr = chunks[Len(chunks)].at + HALF_SYMBOLS + chunks[Len(chunks)].comp_len
       /\ out_len_ptr = Len(out_mem)
       /\ \A k \in 1..Len(out_mem) : out_mem[k] \in 0..255

\* A successful call of several chunks with raw length bytes in a body.
C3_Witness ==
  /\ Succeeded
  /\ Len(chunks) >= 2
  /\ \E i \in 1..Len(chunks) : \E k \in 1..Len(chunks[i].syms) :
       chunks[i].syms[k] > 256 /\ (chunks[i].syms[k] % 16) = 15
  /\ out_len_ptr = Len(out_mem)

\* C4: the call on an empty input returns 0 with 260 bytes written, all zero
\* but the byte at offset 128, which is 1, and *_out_len = 260.
C4_EmptyInputWritesMinData ==
  (Returned /\ ~NonEmpty) =>
    /\ result = "0"
    /\ out_len_ptr = MIN_DATA
    /\ out_mem = [i \in 1..MIN_DATA |-> IF i = 129 THEN 1 ELSE 0]

\* The number of matches of a chunk that are written as symbol 256: offset 1
\* (no offset bits) and length 3.  A fallback chunk has no matches.
ShortestMatches(c) ==
  IF c.fallback THEN 0
  ELSE Cardinality({k \in 1..Len(c.matches) :
                      c.matches[k].offset = 1 /\ c.matches[k].length = 3})

\* C5 as stated: symbol 256 occurs once in the symbols of a call on a
\* non-empty input, as the last symbol of the last chunk, and the
\* symbol_counts[256] of the chunks sum to 1.
C5_Symbol256Once ==
  (Succeeded /\ NonEmpty) =>
    /\ \A i \in 1..Len(chunks) :
         /\ Count(chunks[i].syms, STREAM_END) = (IF i = Len(chunks) THEN 1 ELSE 0)
         /\ chunks[i].count_end = (IF i = Len(chunks) THEN 1 ELSE 0)
    /\ chunks[Len(chunks)].syms[Len(chunks[Len(chunks)].syms)] = STREAM_END

\* C5: the end-of-stream record is written once, as the last symbol of the
\* last chunk; every other symbol 256 is a match of offset 1 and length 3,
\* so a chunk's symbol_counts[256] is the number of those matches, plus one
\* in the last chunk.
C5_EndOfStreamOnce ==
  (Succeeded /\ NonEmpty) =>
    /\ Len(chunks) >= 1
    /\ \A i \in 1..Len(chunks) :
         /\ chunks[i].final = (i = Len(chunks))
         /\ Count(chunks[i].syms, STREAM_END)
              = ShortestMatches(chunks[i]) + (IF i = Len(chunks) THEN 1 ELSE 0)
         /\ chunks[i].count_end = Count(chunks[i].syms, STREAM_END)
    /\ chunks[Len(chunks)].syms[Len(chunks[Len(chunks)].syms)] = STREAM_END

\* A successful call with a match of offset 1 and length 3 in it.
C5_Witness ==
  /\ Succeeded
  /\ \E i \in 1..Len(chunks) : ShortestMatches(chunks[i]) > 0
  /\ chunks[Len(chunks)].syms[Len(chunks[Len(chunks)].syms)] = STREAM_END

\* C6: every match record xh_compress_lz77 writes at place pos of the input
\* has an offset from 1 to MAX_OFFSET that does not reach before the first
\* byte of the input, and a length of at least 3.
C6_MatchesInsideHistory ==
  \A i \in 1..Len(chunks) : \A k \in 1..Len(chunks[i].matches) :
    LET m == chunks[i].matches[k]
    IN /\ m.offset >= 1
       /\ m.offset <= MAX_OFFSET
       /\ m.offset <= m.pos
       /\ m.length >= 3

\* A match in a later chunk whose source lies in the chunk before it.
C6_Witness ==
  \E i \in 2..Len(chunks) : \E k \in 1..Len(chunks[i].matches) :
    LET m == chunks[i].matches[k]
    IN m.pos - m.offset < chunks[i].in_at /\ m.offset > 1 /\ m.length >= 3

\* C9: when the call on a non-empty input returns 0 or ENOBUFS, the scratch
\* buffer, the hash table and the window have all been released.
C9_AllBuffersReleased ==
  (Returned /\ NonEmpty /\ result \in {"0", "ENOBUFS"}) => allocated = {}

\* C10: no step writes at or beyond the capacity *_out_len held at entry; a
\* chunk is written only when header and body fit what is left; a step that
\* returns ENOBUFS writes nothing; and what is left is the capacity minus the
\* bytes written so far.
C10_WritesWithinCapacity ==
  [][pc = "loop" =>
       /\ Len(out_mem') <= out_len_ptr
       /\ out_len = out_len_ptr - out
       /\ Len(chunks') > Len(chunks) =>
            /\ out_len >= HALF_SYMBOLS + chunks'[Len(chunks')].comp_len
            /\ Len(out_mem') = out + HALF_SYMBOLS + chunks'[Len(chunks')].comp_len
       /\ result' = "ENOBUFS" => (out_mem' = out_mem /\ chunks' = chunks)
       /\ pc' = "loop" => out_len' = out_len_ptr' - out']_vars

\* ENOBUFS in a later chunk, after an earlier chunk was written.
C10_Witness ==
  /\ Returned
  /\ result = "ENOBUFS"
  /\ Len(chunks) >= 1
  /\ Len(out_mem) = chunks[Len(chunks)].at + HALF_SYMBOLS + chunks[Len(chunks)].comp_len

(* ------------------------------------------------------------------ *)
(* The LZ77 pass over one chunk                                         *)
(* ------------------------------------------------------------------ *)
\* The chunk the loop is about to take, and the state in which the for loop
\* of xh_compress_lz77 leaves it (before the end-of-stream record).
NextChunkLen == IF in_len > CHUNK_SIZE THEN CHUNK_SIZE ELSE in_len
Lz77Scan ==
  Lz77Items(Lz77Start(in, NextChunkLen), Caller, Fill(d, Caller, in), NextChunkLen)
MatchedBytes(matches) ==
  Sum([k \in 1..Len(matches) |-> matches[k].length], 1, Len(matches))
LiteralCount(counts) == Sum(counts, 0, HALF_SYMBOLS - 1)

\* C11: for every chunk of length L that xh_compress_lz77 is given, the loop
\* ends with rem = 0 and in at the end of the chunk (rem is never negative),
\* every match at place p of the chunk with length len has p + len <= L, and
\* the literals (length 1 each) and the match lengths add up to exactly L.
C11_ItemsCoverChunk ==
  (pc = "loop" /\ in_len > 0) =>
    \E st \in {Lz77Scan} :
      /\ st.rem = 0
      /\ st.in = in + NextChunkLen
      /\ \A k \in 1..Len(st.matches) :
           /\ st.matches[k].pos >= in - in_orig
           /\ (st.matches[k].pos - (in - in_orig)) + st.matches[k].length <= NextChunkLen
      /\ LiteralCount(st.symbol_counts) + MatchedBytes(st.matches) = NextChunkLen

\* A chunk that is not the last, whose last match Find would have carried
\* on into the next chunk: the match is cut at the end of the chunk.
C11_Witness ==
  /\ pc = "loop" /\ in_len > CHUNK_SIZE
  /\ \E st \in {Lz77Scan} : \E k \in 1..Len(st.matches) :
       /\ st.matches[k].pos + st.matches[k].length = (in - in_orig) + CHUNK_SIZE
       /\ Find(Fill(d, Caller, in), Caller, in_orig + st.matches[k].pos, 0).len
            > st.matches[k].length
       /\ LiteralCount(st.symbol_counts) > 0

\* C18: for every chunk the call takes, the highest scratch byte that
\* xh_compress_lz77 touches and the highest that xh_compress_no_matching
\* touches on the same chunk, the 4-byte store of the end-of-stream record
\* and a fresh last mask included, lie inside the buffer allocated at line 243
\* for the length of the whole input.
C18_ScratchWritesInside ==
  (pc = "loop" /\ in_len > 0) =>
    /\ \E lz \in {xh_compress_lz77(Caller, in, NextChunkLen, in_end, d)} :
         lz.buf_len <= lz.high /\ lz.high <= BufSize(Len(input))
    /\ \E nm \in {xh_compress_no_matching(Caller, in, NextChunkLen,
                                           ~(in_len > CHUNK_SIZE))} :
         nm.buf_len <= nm.high /\ nm.high <= BufSize(Len(input))

\* A last chunk of 32 literals: the group is full, the end-of-stream record
\* gets a mask of its own and its store of 4 bytes ends 4 bytes before the
\* end of the buffer.
C18_Witness ==
  /\ pc = "loop" /\ in_len > 0 /\ ~(in_len > CHUNK_SIZE)
  /\ xh_compress_lz77(Caller, in, in_len, in_end, d).high
       = in_len + 4 * ((in_len + 31) \div 32) + 8
  /\ xh_compress_lz77(Caller, in, in_len, in_end, d).high = BufSize(Len(input)) - 4
  /\ xh_compress_no_matching(Caller, in, in_len, TRUE).high = BufSize(Len(input)) - 4

(* ------------------------------------------------------------------ *)
(* The two code builders on their own                                   *)
(* ------------------------------------------------------------------ *)
\* Histograms of k distinct symbols, the end-of-stream symbol among them, with
\* equal, linear, Fibonacci, geometric and scattered counts; every one is of the
\* size the histogram of a chunk has (the counts sum to 65541 at most).
MaxSymbols == 22
RECURSIVE Fib(_)
Fib(j) == IF j <= 2 THEN 1 ELSE Fib(j - 1) + Fib(j - 2)
HistogramSymbol(j) == (STREAM_END + (j - 1) * 37) % SYMBOLS
HistogramCount(shape, j) ==
  CASE shape = "equal"     -> 1
    [] shape = "linear"    -> j
    [] shape = "fibonacci" -> Fib(j)
    [] shape = "geometric" -> IF j <= 16 THEN 2 ^ (j - 1) ELSE 1
    [] shape = "scattered" -> 1 + ((j * j * 7) % 23) * (2 ^ (j % 5))
Histogram(shape, k) ==
  Array([s \in 0..(SYMBOLS - 1) |->
           IF \E j \in 1..k : HistogramSymbol(j) = s
           THEN HistogramCount(shape, CHOOSE j \in 1..k : HistogramSymbol(j) = s)
           ELSE 0])
Histograms ==
  {Histogram(shape, k) : shape \in {"equal", "linear", "fibonacci", "geometric",
                                     "scattered"},
                         k \in 1..MaxSymbols}

InitHuff ==
  /\ symbol_counts \in Histograms
  /\ encoder = [lens |-> ZeroCodes, codes |-> ZeroCodes]
  /\ pc = "histogram"
  /\ input = <<>> /\ in = in_orig /\ in_len = 0
  /\ out_mem = <<>> /\ out = 0 /\ out_len = 0 /\ out_len_ptr = 0
  /\ result = "none" /\ allocated = {} /\ buf = <<>>
  /\ d = XpressDictionary_init(NULL, NULL, NULL)
  /\ chunks = <<>>

CallCreateCodes ==
  /\ pc = "histogram"
  /\ encoder' = CreateCodes(symbol_counts)
  /\ pc' = "CreateCodes"
  /\ UNCHANGED <<input, in, in_len, out_mem, out, out_len, out_len_ptr, result,
                 allocated, buf, d, symbol_counts, chunks>>

CallCreateCodesSlow ==
  /\ pc = "histogram"
  /\ encoder' = CreateCodesSlow(symbol_counts)
  /\ pc' = "CreateCodesSlow"
  /\ UNCHANGED <<input, in, in_len, out_mem, out, out_len, out_len_ptr, result,
                 allocated, buf, d, symbol_counts, chunks>>

NextHuff == CallCreateCodes \/ CallCreateCodesSlow

SpecHuff == InitHuff /\ [][NextHuff]_vars

\* The codes of a builder are in place.
Coded == pc \in {"CreateCodes", "CreateCodesSlow"}

\* C7: after CreateCodes and after CreateCodesSlow every one of the 512
\* lengths is in 0..15, and the length of a symbol is 0 only if its count is
\* 0: every symbol that occurs has a code of 1 to 15 bits.
C7_LengthsInRange ==
  Coded => \A s \in 0..(SYMBOLS - 1) :
             /\ encoder.lens[s] \in 0..HUFF_BITS_MAX
             /\ (encoder.lens[s] = 0 => symbol_counts[s] = 0)

\* Both builders have met a histogram whose unlimited Huffman tree is deeper
\* than 15 and brought it to exactly 15 bits.
C7_Witness ==
  /\ Coded
  /\ \E s \in 0..(SYMBOLS - 1) : encoder.lens[s] = HUFF_BITS_MAX /\ symbol_counts[s] # 0
  /\ symbol_counts[STREAM_END] # 0 /\ encoder.lens[STREAM_END] # 0

\* The symbols that have a code, by ascending length and then symbol index.
CodedSymbols == SelectSeq(SymbolIndices, LAMBDA s : encoder.lens[s] # 0)
CanonicalOrder == merge_sort(CodedSymbols, encoder.lens)

\* C8: the codes of the symbols with a non-zero length are canonical and
\* prefix-free: each is below 2^length; in the order of ascending length and
\* then ascending symbol index the first is 0 and each next one is the
\* previous plus one, shifted left by the difference of the lengths; and no
\* code is a prefix of another.
C8_CanonicalPrefixFree ==
  Coded =>
    LET order == CanonicalOrder
        lens == encoder.lens
        codes == encoder.codes
    IN /\ \A s \in 0..(SYMBOLS - 1) : lens[s] # 0 => codes[s] < 2 ^ lens[s]
       /\ Len(order) > 0 => codes[order[1]] = 0
       /\ \A i \in 2..Len(order) :
            codes[order[i]] = Shl(codes[order[i - 1]] + 1, lens[order[i]] - lens[order[i - 1]])
       /\ \A i \in 1..Len(order) : \A j \in 1..Len(order) :
            (i # j /\ lens[order[i]] <= lens[order[j]])
              => Shr(codes[order[j]], lens[order[j]] - lens[order[i]]) # codes[order[i]]

\* A builder has produced codes of at least three different lengths.
C8_Witness ==
  /\ Coded
  /\ \E a, b, c \in {HistogramSymbol(j) : j \in 1..3} :
       /\ 0 < encoder.lens[a] /\ encoder.lens[a] < encoder.lens[b]
       /\ encoder.lens[b] < encoder.lens[c]
       /\ encoder.codes[c] # 0

(* ------------------------------------------------------------------ *)
(* The bit stream writer on its own                                     *)
(* ------------------------------------------------------------------ *)
\* A writer is initialised and up to MaxWrites calls are made on it; the
\* history keeps, for each call, the writer before it (ctx), the arguments
\* and the writer after it.  Bit counts go up to 16, values up to 2^n - 1.
MaxWrites == 3
BitCounts == {0, 1, 7, 8, 9, 15, 16}
BitValues(n) == {0, (2 ^ n) \div 3, 2 ^ n - 1}
Writer == IF chunks = <<>> THEN OutputBitstream_init ELSE chunks[Len(chunks)].after

InitBits ==
  /\ chunks = <<>>
  /\ pc = "writer"
  /\ symbol_counts = ZeroCounts
  /\ encoder = [lens |-> ZeroCodes, codes |-> ZeroCodes]
  /\ input = <<>> /\ in = in_orig /\ in_len = 0
  /\ out_mem = <<>> /\ out = 0 /\ out_len = 0 /\ out_len_ptr = 0
  /\ result = "none" /\ allocated = {} /\ buf = <<>>
  /\ d = XpressDictionary_init(NULL, NULL, NULL)

CallWriteBits ==
  /\ pc = "writer" /\ Len(chunks) < MaxWrites
  /\ \E n \in BitCounts : \E b \in BitValues(n) :
       chunks' = Append(chunks, [op |-> "WriteBits", ctx |-> Writer, b |-> b, n |-> n,
                                 after |-> WriteBits(Writer, b, n)])
  /\ UNCHANGED <<input, in, in_len, out_mem, out, out_len, out_len_ptr, pc, result,
                 allocated, buf, d, symbol_counts, encoder>>

CallWriteRawByte ==
  /\ pc = "writer" /\ Len(chunks) < MaxWrites
  /\ \E x \in {90} :
       chunks' = Append(chunks, [op |-> "WriteRawByte", ctx |-> Writer, b |-> x, n |-> 8,
                                 after |-> WriteRawByte(Writer, x)])
  /\ UNCHANGED <<input, in, in_len, out_mem, out, out_len, out_len_ptr, pc, result,
                 allocated, buf, d, symbol_counts, encoder>>

\* A match record as xh_compress_lz77 writes it (lines 93-105) is read and
\* written as xh_compress_encode does (lines 200-224), with a code of 9 bits
\* for every symbol; "read" is the number of scratch bytes taken.
MatchLengths == {3, 17, 18, 19, 272, 273, 274, 65538, 65539, 70000}
MatchOffsets == {1, 65535}
FlatEncoder ==
  [lens |-> [s \in 0..(SYMBOLS - 1) |-> 9], codes |-> [s \in 0..(SYMBOLS - 1) |-> s]]
CallEncodeMatch ==
  /\ pc = "writer" /\ Len(chunks) < MaxWrites
  /\ \E length \in MatchLengths : \E offset \in MatchOffsets :
       \E rec \in {MatchRecord(offset, length)} :
         \E e \in {EncodeItem([in |-> 1, bstr |-> Writer, syms |-> <<>>, i |-> 32,
                               mask |-> U32(0, 1)],
                              rec.bytes, Len(rec.bytes) + 1, FlatEncoder)} :
           chunks' = Append(chunks, [op |-> "match", ctx |-> Writer, b |-> offset,
                                     n |-> length, rec |-> rec.bytes,
                                     read |-> e.in - 1, after |-> e.bstr])
  /\ pc' = "match"
  /\ UNCHANGED <<input, in, in_len, out_mem, out, out_len, out_len_ptr, result,
                 allocated, buf, d, symbol_counts, encoder>>

NextBits == CallWriteBits \/ CallWriteRawByte \/ CallEncodeMatch

SpecBits == InitBits /\ [][NextBits]_vars

\* C12: for every writer state and every n <= 16 (value below 2^n),
\* WriteBits ORs the value into the accumulator at bit offset
\* 32 - (bits_used + n) and adds n to bits_used; when the new bits_used is
\* above 16 it stores the top 16 bits of the accumulator, low byte first, at
\* the pending slot, makes the next-pending slot the pending one and the old
\* cursor the next-pending one, moves the cursor on by 2, shifts the
\* accumulator left by 16 and leaves bits_used at the new value minus 16.
C12_WriteBitsAsDescribed ==
  \A i \in 1..Len(chunks) :
    chunks[i].op = "WriteBits" =>
      LET c == chunks[i].ctx
          a == chunks[i].after
          used == c.bits + chunks[i].n
          acc == U32Or(c.mask, U32Shl(chunks[i].b, 32 - used))
      IN IF used > 16
         THEN /\ a.mem[c.pntr[1] + 1] = acc.hi % 256
              /\ a.mem[c.pntr[1] + 2] = acc.hi \div 256
              /\ a.pntr = <<c.pntr[2], c.out>>
              /\ a.out = c.out + 2
              /\ a.mask = U32(acc.lo, 0)
              /\ a.bits = used - 16
         ELSE /\ a.mask = acc
              /\ a.bits = used
              /\ a.mem = c.mem /\ a.pntr = c.pntr /\ a.out = c.out

\* The last call of the history, and the bytes of a match record after its
\* symbol and offset.
LastCall == chunks[Len(chunks)]
Extension(rec) == SubSeq(rec, 4, Len(rec))

\* C16: for a match of length len the low nibble of the symbol is
\* min(len - 3, 15); the record carries no extra byte when len - 3 < 15, one
\* byte len - 3 - 15 (never 0xFF) when 15 <= len - 3 < 270, 0xFF and the 16
\* bits of len - 3 (never 0) when 270 <= len - 3 <= 65535, and 0xFF, 0x0000
\* and the 32 bits of len - 3 otherwise; xh_compress_encode takes exactly
\* these bytes from the scratch buffer and copies them to the raw area of the
\* stream, after the code of the symbol and before the offset bits.
C16_LengthExtension ==
  pc = "match" =>
    LET len == LastCall.n - 3
        ext == Extension(LastCall.rec)
        coded == EncodeSymbol(FlatEncoder, 256 + LastCall.rec[1], LastCall.ctx)
    IN /\ LastCall.rec[1] % 16 = MIN(len, 15)
       /\ len < 15 => ext = <<>>
       /\ (15 <= len /\ len < 270) => (ext = <<len - 15>> /\ ext[1] # 255)
       /\ (270 <= len /\ len <= 65535) =>
            (ext = <<255, len % 256, len \div 256>> /\ ext[2] + 256 * ext[3] # 0)
       /\ len > 65535 =>
            ext = <<255, 0, 0, len % 256, (len \div 256) % 256,
                    (len \div 65536) % 256, len \div 16777216>>
       /\ LastCall.read = 3 + Len(ext)
       /\ SubSeq(LastCall.after.mem, coded.out + 1, coded.out + Len(ext)) = ext
       /\ LastCall.after.out - (coded.out + Len(ext)) \in {0, 2}

\* A record with the 16-bit form is written into a stream that has bits of
\* an earlier call waiting, and another with the 32-bit form.
C16_Witness ==
  /\ pc = "match"
  /\ LastCall.n - 3 >= 270
  /\ Len(Extension(LastCall.rec)) \in {3, 7}
  /\ LastCall.ctx.bits > 0
  /\ LastCall.read = Len(LastCall.rec)

(* ------------------------------------------------------------------ *)
(* The dictionary on its own                                            *)
(* ------------------------------------------------------------------ *)
\* The dictionary is set up on an input, Fill is called chunk by chunk as
\* xh_compress_lz77 calls it, and Find is called at a place of the chunk
\* filled last where at least 3 bytes of the chunk are left (line 84).
MaxFind == 6
FindInputs == Inputs \cup Strings(MaxFind)

InitFind ==
  /\ input \in FindInputs
  /\ in = in_orig
  /\ in_len = Len(input)
  /\ \E garbage \in Garbage : d = XpressDictionary_init(in_orig, in_end, garbage)
  /\ pc = "dictionary"
  /\ result = "none"
  /\ out_mem = <<>> /\ out = 0 /\ out_len = 0 /\ out_len_ptr = 0
  /\ allocated = {} /\ buf = <<>>
  /\ symbol_counts = ZeroCounts
  /\ encoder = [lens |-> ZeroCodes, codes |-> ZeroCodes]
  /\ chunks = <<>>

\* Line 55 of xh_compress_lz77: Fill at the start of the chunk.
CallFill ==
  /\ pc = "dictionary" /\ in_len > 0
  /\ d' = Fill(d, Caller, in)
  /\ pc' = "filled"
  /\ UNCHANGED <<input, in, in_len, out_mem, out, out_len, out_len_ptr, result,
                 allocated, buf, symbol_counts, encoder, chunks>>

\* Line 278: the next chunk.
NextChunk ==
  /\ pc = "filled" /\ in_len > CHUNK_SIZE
  /\ in' = in + CHUNK_SIZE
  /\ in_len' = in_len - CHUNK_SIZE
  /\ pc' = "dictionary"
  /\ UNCHANGED <<input, out_mem, out, out_len, out_len_ptr, result, allocated, buf,
                 d, symbol_counts, encoder, chunks>>

\* Line 85: Find at data, with *offset = 0 before the call.
CallFind ==
  /\ pc = "filled"
  /\ \E data \in in..(in + NextChunkLen - 3) :
       \E f \in {Find(d, Caller, data, 0)} :
         result' = [data |-> data, len |-> f.len, offset |-> f.offset]
  /\ pc' = "Find"
  /\ UNCHANGED <<input, in, in_len, out_mem, out, out_len, out_len_ptr, allocated,
                 buf, d, symbol_counts, encoder, chunks>>

NextFind == CallFill \/ NextChunk \/ CallFind

SpecFind == InitFind /\ [][NextFind]_vars

\* The candidates of the call recorded in result, and the number of bytes
\* that are equal from a and from b on, counted up to the end of the input.
Visited ==
  FindVisited(d, Caller, result.data, WindowGet(d, WindowPos(d, result.data)),
              MAX_CHAIN, 2)
EqualRun(a, b) ==
  Cardinality({k \in 1..(in_end - b) :
                 \A j \in 0..(k - 1) : Deref(Caller, a + j) = Deref(Caller, b + j)})
MaxOf(S) == CHOOSE m \in S : \A o \in S : o <= m

\* C13: Find returns the largest number, over the candidates it visits, of
\* bytes that are equal at the candidate and at data counted up to the end of
\* the input, and 2 when no visited candidate has more than 2; when it
\* returns more than 2, *offset is data minus a visited candidate with that
\* many equal bytes.
C13_FindReturnsLongest ==
  pc = "Find" =>
    \E v \in {Visited} :
      /\ result.len = MaxOf({2} \cup {EqualRun(v[k], result.data) : k \in 1..Len(v)})
      /\ result.len > 2 =>
           \E k \in 1..Len(v) :
             /\ result.offset = result.data - v[k]
             /\ EqualRun(v[k], result.data) = result.len

\* The length Find takes for the candidate x: GetMatchLength when the first
\* two bytes are equal (line 192), nothing otherwise.
Measured(x) ==
  IF Deref(Caller, x) = Deref(Caller, result.data)
     /\ Deref(Caller, x + 1) = Deref(Caller, result.data + 1)
  THEN GetMatchLength(Caller, x, result.data, in_end) ELSE 0
Achieving(v) == {k \in 1..Len(v) : Measured(v[k]) = result.len}

\* C14 as stated: when two or more visited candidates have the best length,
\* the offset reported is that of the oldest of them (the largest offset).
C14_TiePrefersOlder ==
  (pc = "Find" /\ result.len > 2) =>
    \E v \in {Visited} :
      \A k \in Achieving(v) : result.offset >= result.data - v[k]

\* C14: the chain walk goes from the most recent candidate to older ones and
\* a candidate replaces the match only when it is strictly longer; so when
\* two or more visited candidates have the best length, the offset reported
\* is that of the one visited first, which is the most recent of them (the
\* smallest offset).
C14_TiePrefersFirstVisited ==
  (pc = "Find" /\ result.len > 2) =>
    \E v \in {Visited} :
      /\ \A k \in 1..(Len(v) - 1) : v[k] > v[k + 1]
      /\ \E k \in Achieving(v) :
           /\ result.offset = result.data - v[k]
           /\ \A o \in Achieving(v) : k <= o /\ result.offset <= result.data - v[o]

\* Three visited candidates of the same best length.
C14_Witness ==
  /\ pc = "Find" /\ result.len > 2
  /\ Cardinality(Achieving(Visited)) >= 3
  /\ result.offset = result.data - Visited[1]

\* The positions Fill has entered so far, and the hash of the three bytes at
\* p when every byte moves the hash on by "shift" bits under the mask 0x7FFF.
Filled == in_orig..(MIN(in + CHUNK_SIZE, in_end - 2) - 1)
HashStep(h, c, shift) == BitXor(h * (2 ^ shift), c) % 32768
HashOfThree(p, shift) ==
  HashStep(HashStep(Deref(Caller, p), Deref(Caller, p + 1), shift),
           Deref(Caller, p + 2), shift)
\* p is entered under hash h(p): the table slot of h(p) holds the last
\* position with that hash, and the window slot of p (while the window of two
\* chunks still holds it) the position before p with that hash, or NULL.
StoredUnder(h) ==
  \A p \in Filled :
    /\ TableGet(d, h[p]) = MaxOf({q \in Filled : h[q] = h[p]})
    /\ p >= in - CHUNK_SIZE =>
         WindowGet(d, WindowPos(d, p))
           = MaxOf({NULL} \cup {q \in Filled : q < p /\ h[q] = h[p]})

\* C15 as stated: the hash moves on by 6 bits a byte,
\* h_next = ((h << 6) XOR next_byte) AND 0x7FFF, and Fill enters every
\* position under the hash of its three bytes.
C15_ShiftIsSix ==
  pc = "filled" =>
    /\ HashShift = 6
    /\ StoredUnder([p \in Filled |-> HashOfThree(p, 6)])

\* C15: the hash moves on by (15 + 2) div 3 = 5 bits a byte,
\* h_next = ((h << 5) XOR next_byte) AND 0x7FFF, so that the hash of a
\* position depends on exactly the three bytes at it, and Fill enters every
\* position under that hash.
C15_ShiftIsFive ==
  pc = "filled" =>
    /\ HashShift = 5 /\ HashSize - 1 = 32767
    /\ \A p \in Filled :
         p + 1 \in Filled =>
           HashUpdate(HashOfThree(p, 5), Deref(Caller, p + 3)) = HashOfThree(p + 1, 5)
    /\ StoredUnder([p \in Filled |-> HashOfThree(p, 5)])

\* The second chunk is filled; a position of the first chunk is the one
\* before a position of the second in its chain, and two hashes differ.
C15_Witness ==
  /\ pc = "filled" /\ in > in_orig
  /\ \E p \in Filled : \E q \in Filled :
       /\ p >= in /\ q < in
       /\ WindowGet(d, WindowPos(d, p)) = q
       /\ HashOfThree(p, 5) = HashOfThree(q, 5)
  /\ \E p \in Filled : \E q \in Filled : HashOfThree(p, 5) # HashOfThree(q, 5)

(* ------------------------------------------------------------------ *)
(* The cost of the lengths of CreateCodesSlow                           *)
(* ------------------------------------------------------------------ *)
\* The non-zero counts in ascending order, and the number of bits the lengths
\* of the encoder give the chunk.
Present == SelectSeq(SymbolIndices, LAMBDA s : symbol_counts[s] # 0)
Coins == SortSeq([p \in 1..Len(Present) |-> symbol_counts[Present[p]]],
                 LAMBDA x, y : x < y)
CodedBits == Sum([s \in 0..(SYMBOLS - 1) |-> symbol_counts[s] * encoder.lens[s]],
                 0, SYMBOLS - 1)
\* The least cost of a code of at most HUFF_BITS_MAX bits by the coin
\* collector's argument of Larmore and Hirschberg: the row of width 2^-15 is
\* the coins; every next row is the coins merged with the pairs of the row
\* before; the 2n - 2 cheapest items of the last row are the optimum.
Pairs(row) == [p \in 1..(Len(row) \div 2) |-> row[2 * p - 1] + row[2 * p]]
RECURSIVE Row(_)
Row(j) == IF j = 1 THEN Coins
          ELSE SortSeq(Coins \o Pairs(Row(j - 1)), LAMBDA x, y : x < y)
OptimalBits(last) == Sum(last, 1, 2 * Len(Coins) - 2)
\* Every assignment of lengths to the symbols present that satisfies Kraft's
\* inequality, for the histograms small enough to list them all.
MaxListed == 3
Kraft(a) == Sum([p \in DOMAIN a |-> 2 ^ (HUFF_BITS_MAX - a[p])], 1, Len(a))
              <= 2 ^ HUFF_BITS_MAX
BitsOf(a) == Sum([p \in DOMAIN a |-> symbol_counts[Present[p]] * a[p]], 1, Len(a))

\* C17: for a histogram with at least two non-zero counts the lengths of
\* CreateCodesSlow satisfy Kraft's inequality and their cost, the sum of
\* count * length, is the least a code of lengths 1..15 can have: it equals
\* the optimum of the coin collector's argument, and for up to MaxListed
\* symbols no assignment of lengths in 1..15 that satisfies Kraft's
\* inequality costs less.
C17_SlowLengthsOptimal ==
  (pc = "CreateCodesSlow" /\ Len(Present) >= 2) =>
    \E bits \in {CodedBits} :
      /\ Kraft([p \in 1..Len(Present) |-> encoder.lens[Present[p]]])
      /\ bits = OptimalBits(Row(HUFF_BITS_MAX))
      /\ Len(Present) <= MaxListed =>
           \A a \in [1..Len(Present) -> 1..HUFF_BITS_MAX] : Kraft(a) => bits <= BitsOf(a)

\* The limit of 15 bits binds: the lengths reach 15 and cost more than the
\* best code without a limit (rows up to the number of symbols).
C17_Witness ==
  /\ pc = "CreateCodesSlow" /\ Len(Present) >= 17
  /\ \E s \in 0..(SYMBOLS - 1) : encoder.lens[s] = HUFF_BITS_MAX
  /\ CodedBits = OptimalBits(Row(HUFF_BITS_MAX))
  /\ CodedBits > OptimalBits(Row(Len(Present)))

============================================================================
